---- MODULE Spec2Model ----
(***************************************************************************)
(* State-machine model of the gemini-app browser UI: the chat controller   *)
(* (Chatbot), the session store kept by App, the persistent scalar store   *)
(* (usePersistentState), the credential check of the model gateway, the    *)
(* video animation, the feature panels and the image upload.               *)
(*                                                                         *)
(* Conventions.  Text is a sequence of one-character strings.  A nullable  *)
(* JavaScript value is a sequence of length at most one: None is null or   *)
(* undefined, Some(v) is the value v.  React state is modelled after the   *)
(* render and the effects that follow an event have run, so an action is   *)
(* one event handler (or one resumption of an async function) together     *)
(* with the effects its state changes trigger.  localStorage is taken to   *)
(* accept every write (the handlers only log a failed write).              *)
(***************************************************************************)
EXTENDS Naturals, Sequences, FiniteSets, TLC

VARIABLES
    \* ---- App (session store) ----
    chatHistory,    \* App.chatHistory: sequence of ChatSession
    activeChatId,   \* App.activeChatId: None or Some(id)
    storage,        \* localStorage['gemini-chat-history']
    phase,          \* "init" | "loaded" | "ready" | "crashed"
    now,            \* the value Date.now() returned last (page load at first)
    \* ---- Chatbot ----
    chat,           \* Chatbot.chat: None or Some(chat handle)
    messages,       \* Chatbot.messages: the visible transcript
    isLoading,      \* Chatbot.isLoading
    error,          \* Chatbot.error: None or Some(message)
    useProModel,    \* Chatbot.useProModel
    runs,           \* the invocations of handleSubmit, by submission number
                    \* (`live`: the Chatbot instance that made it is mounted)
    timers,         \* pending setTimeout callbacks of handleSubmit
    submits,        \* number of accepted submissions so far
    \* ---- credential ----
    envKey,         \* process.env.API_KEY is set
    sdkStrict,      \* new GoogleGenAI({apiKey: undefined}) throws
    aistudio,       \* window.aistudio exists
    hostHasKey,     \* what aistudio.hasSelectedApiKey() resolves to
    apiKeySelected, \* VideoAnimator.apiKeySelected
    gw,             \* trace of the last call into geminiService
    \* ---- persistent scalar store ----
    ls,             \* localStorage, the slots of usePersistentState, by key
    pstate,         \* the state usePersistentState holds, by key (None: unmounted)
    psFrom,         \* by key: how the state was set ("stored" | "default" | "set")
    psWritten,      \* by key: Some(v) while the slot holds what the hook wrote for v
    \* ---- feature panels ----
    anim,           \* the invocation of animateImageWithVeo in progress, and its trace
    va,             \* VideoAnimator: isLoading, error, videoUrl
    panel,          \* the other panels, by feature: isLoading, error, result,
                    \* and their calls into geminiService
    upload          \* the image a panel holds, and what ImageUploader did last

appVars == <<chatHistory, activeChatId, storage, phase, now>>
botVars == <<chat, messages, isLoading, error, useProModel, runs, timers, submits>>
gwVars == <<envKey, sdkStrict, aistudio, hostHasKey, apiKeySelected, gw>>
psVars == <<ls, pstate, psFrom, psWritten>>
\* what the chat and the session store never touch
featVars == <<anim, va, panel, upload>>
restVars == <<gwVars, psVars, featVars>>
vars == <<appVars, botVars, restVars>>

-----------------------------------------------------------------------------
(* Bounds *)

MaxSubmits == 1     \* accepted chat submissions per behaviour (Spec)
RaceSubmits == 2    \* accepted chat submissions per behaviour (SpecRace)

-----------------------------------------------------------------------------
(* JavaScript helpers *)

None == <<>>
Some(v) == <<v>>

Min(a, b) == IF a <= b THEN a ELSE b

\* Array.prototype.slice(0, -n)
SliceOff(s, n) == IF Len(s) <= n THEN <<>> ELSE SubSeq(s, 1, Len(s) - n)

\* String.prototype.substring(0, n)
Substring0(s, n) == SubSeq(s, 1, Min(n, Len(s)))

IsSpace(c) == c = " "

RECURSIVE TrimStart(_)
TrimStart(s) == IF s # <<>> /\ IsSpace(Head(s)) THEN TrimStart(Tail(s)) ELSE s

RECURSIVE TrimEnd(_)
TrimEnd(s) == IF s # <<>> /\ IsSpace(s[Len(s)]) THEN TrimEnd(SubSeq(s, 1, Len(s) - 1)) ELSE s

\* String.prototype.trim
Trim(s) == TrimEnd(TrimStart(s))

RECURSIVE SeqsUpTo(_, _)
\* all sequences over S of length at most n
SeqsUpTo(S, n) ==
    IF n = 0 THEN {<<>>}
    ELSE LET shorter == SeqsUpTo(S, n - 1)
         IN  shorter \cup {Append(s, c) : s \in shorter, c \in S}

Pro == "gemini-2.5-pro"
Flash == "gemini-2.5-flash"

-----------------------------------------------------------------------------
(* Session store: serialization, load validation (App, history effects) *)

\* JSON.stringify of one ChatMessage: both fields are always written.
msgToJSON(m) == [isNull |-> FALSE, role |-> m.role, content |-> Some(m.content)]

\* JSON.stringify of one ChatSession.
sessionToJSON(s) ==
    [id |-> s.id, title |-> s.title, model |-> s.model,
     messages |-> [isList |-> TRUE, items |-> [i \in 1..Len(s.messages) |-> msgToJSON(s.messages[i])]]]

\* JSON.stringify(chatHistory): the text written to the aggregate slot.
JSONstringify(h) == [kind |-> "array", sessions |-> [i \in 1..Len(h) |-> sessionToJSON(h[i])]]

saveEffectStale(h) == storage
\* The save effect on [chatHistory]: the text it leaves in the slot.
saveEffect(h) == JSONstringify(h)

\* localStorage.getItem returned null.
NoItem == [kind |-> "null", sessions |-> <<>>]
\* stored text JSON.parse rejects.
Garbage == [kind |-> "garbage", sessions |-> <<>>]
\* stored text that parses to something that is not an array.
NotArray == [kind |-> "value", sessions |-> <<>>]

ValidRoleAny(role) == role
\* msg.role === 'user' || msg.role === 'model' ? msg.role : 'user'
ValidRole(role) == IF role = "user" \/ role = "model" THEN role ELSE "user"

\* msg.content || ''
ContentOrEmpty(content) == IF content = None THEN <<>> ELSE content[1]

\* the map callback of the load effect
validateMessage(msg) ==
    [content |-> ContentOrEmpty(msg.content), role |-> ValidRole(msg.role)]

\* the filter callback of the load effect: (msg) => msg.content
KeepMessage(m) == m.content # <<>>

\* Array.isArray(session.messages) ? session.messages.map(..).filter(..) : []
validateMessages(pm) ==
    IF pm.isList THEN SelectSeq([i \in 1..Len(pm.items) |-> validateMessage(pm.items[i])], KeepMessage)
    ELSE <<>>

\* {...session, messages: ...}
validateSession(ps) ==
    [id |-> ps.id, title |-> ps.title, model |-> ps.model,
     messages |-> validateMessages(ps.messages)]

\* The try block of the load effect throws: JSON.parse rejects the text, or
\* msg.content is read from a turn that is null.
loadThrows(slot) ==
    \/ slot.kind = "garbage"
    \/ /\ slot.kind = "array"
       /\ \E i \in DOMAIN slot.sessions :
             /\ slot.sessions[i].messages.isList
             /\ \E j \in DOMAIN slot.sessions[i].messages.items :
                    slot.sessions[i].messages.items[j].isNull

\* The load effect: None when setChatHistory is not called (no item, parsed
\* value not an array, exception caught), else Some(validHistory).
loadHistory(slot) ==
    IF slot.kind = "array" /\ ~loadThrows(slot)
    THEN Some([i \in 1..Len(slot.sessions) |-> validateSession(slot.sessions[i])])
    ELSE None

-----------------------------------------------------------------------------
(* App: derived state *)

\* chatHistory.find(session => session.id === activeChatId) || null
activeChatSession(h, a) ==
    LET hit == SelectSeq(h, LAMBDA s : Some(s.id) = a)
    IN  IF hit = <<>> THEN None ELSE Some(hit[1])

deleteSessionAll(h, id) == <<>>
\* prev.filter(session => session.id !== id)
deleteSession(h, id) == SelectSeq(h, LAMBDA s : s.id # id)

addSessionDropped(h, s) == h
\* [newSession, ...prev]
addSession(h, s) == <<s>> \o h

updateSessionOrAdd(h, u) ==
    IF \E i \in 1..Len(h) : h[i].id = u.id
    THEN [i \in 1..Len(h) |-> IF h[i].id = u.id THEN u ELSE h[i]]
    ELSE <<u>> \o h
\* prev.map(session => session.id === updatedSession.id ? updatedSession : session)
updateSession(h, u) == [i \in 1..Len(h) |-> IF h[i].id = u.id THEN u ELSE h[i]]

SessionIds(h) == {h[i].id : i \in DOMAIN h}

-----------------------------------------------------------------------------
(* Chatbot: pure parts *)

UserTurn(text) == [role |-> "user", content |-> text]
ModelTurn(text) == [role |-> "model", content |-> text]

\* length of the title prefix in handleSubmit
TitleLen == 30
Ellipsis == <<".", ".", ".">>

sessionTitleFrom30(currentInput) ==
    Substring0(currentInput, TitleLen)
        \o (IF Len(currentInput) >= TitleLen THEN Ellipsis ELSE <<>>)
\* currentInput.substring(0, 30) + (currentInput.length > 30 ? '...' : '')
sessionTitle(currentInput) ==
    Substring0(currentInput, TitleLen)
        \o (IF Len(currentInput) > TitleLen THEN Ellipsis ELSE <<>>)

\* initializeChat(model, history): the chat handle and error it leaves
\* (isLoading ends false on both paths).  Without a key the SDK constructor
\* either throws, which the catch turns into the init error and leaves the
\* old handle, or builds a handle whose requests carry no credential.
initializeChat(model, history, oldChat) ==
    IF envKey \/ ~sdkStrict
    THEN [chat |-> Some([model |-> model, history |-> history, keyed |-> envKey]),
          error |-> None]
    ELSE [chat |-> oldChat, error |-> Some("init")]

sessionEffectDefaultVariant(sess, oldChat) ==
    LET hist == IF sess = None THEN <<>> ELSE sess[1].messages
        ic == initializeChat(Flash, hist, oldChat)
    IN  [messages |-> hist, useProModel |-> FALSE,
         chat |-> ic.chat, error |-> ic.error, isLoading |-> FALSE]
\* The effect on [session]: what the Chatbot state is after it has run.
sessionEffect(sess, oldChat) ==
    LET model == IF sess = None THEN Flash ELSE sess[1].model
        hist == IF sess = None THEN <<>> ELSE sess[1].messages
        ic == initializeChat(model, hist, oldChat)
    IN  [messages |-> hist,
         useProModel |-> (sess # None /\ sess[1].model = Pro),
         chat |-> ic.chat, error |-> ic.error, isLoading |-> FALSE]

accumulateLast(fullResponse, chunkText) == chunkText
\* fullResponse += chunkText
accumulate(fullResponse, chunkText) == fullResponse \o chunkText

\* The updater of the streaming loop: replace the content of the last turn
\* when it is a model turn.  (prev must be non-empty.)
applyChunk(prev, fullResponse) ==
    LET lastMessage == prev[Len(prev)]
    IN  IF lastMessage.role = "model"
        THEN Append(SliceOff(prev, 1), [lastMessage EXCEPT !.content = fullResponse])
        ELSE prev

\* The fragments the stream of submission r delivers: a prefix of Script(r)
\* (every fragment is different, so that order, loss and duplication show;
\* the first stream has two fragments, the later ones one).
ScriptLetters == << <<"a", "b">>, <<"c">>, <<"d">> >>
Script(r) ==
    LET row == ScriptLetters[((r - 1) % Len(ScriptLetters)) + 1]
    IN  [k \in 1..Len(row) |-> <<row[k]>>]

\* Concatenation of the first n fragments of a script.
RECURSIVE Concat(_, _)
Concat(script, n) == IF n = 0 THEN <<>> ELSE Concat(script, n - 1) \o script[n]

\* What the chat box may hold when the form is submitted.
Inputs == { <<>>, <<" ">>, <<"h", "i", " ">> }

IdleRun ==
    [phase |-> "idle", live |-> FALSE, session |-> None, newMessages |-> <<>>, currentInput |-> <<>>,
     usePro |-> FALSE, fullResponse |-> <<>>, nfrags |-> 0, keyed |-> FALSE]

-----------------------------------------------------------------------------
(* Initial state: the page has been opened, nothing is mounted yet *)

\* A session an earlier visit left in the slot (its id is an earlier clock value).
OldSession ==
    [id |-> 0, title |-> <<"o", "l", "d">>, model |-> Pro,
     messages |-> <<UserTurn(<<"q">>), ModelTurn(<<"r">>)>>]

\* What the aggregate slot may hold when the page is opened.
PersistedSlots == { NoItem, Garbage, JSONstringify(<<OldSession>>) }

InitBot ==
    /\ chat = None
    /\ messages = <<>>
    /\ isLoading = FALSE
    /\ error = None
    /\ useProModel = FALSE
    /\ runs = <<>>
    /\ timers = 0
    /\ submits = 0

InitApp ==
    /\ chatHistory = <<>>
    /\ activeChatId = None
    /\ phase = "init"
    /\ now = 1

\* No call into geminiService yet.
GwIdle == [op |-> "none", absent |-> FALSE, flow |-> FALSE, keyed |-> FALSE,
           result |-> "none"]

\* The feature panels are not opened.
InitGwOff ==
    /\ aistudio = FALSE
    /\ hostHasKey = FALSE
    /\ apiKeySelected = FALSE
    /\ gw = GwIdle

PSKeys == {"search-prompt", "videoAnimator-aspectRatio"}

InitPsOff ==
    /\ ls = [k \in PSKeys |-> None]
    /\ pstate = [k \in PSKeys |-> None]
    /\ psFrom = [k \in PSKeys |-> "none"]
    /\ psWritten = [k \in PSKeys |-> None]

\* A panel that is not shown has no state.  `response` is the last provider
\* response the shown instance received; `live` counts its calls in flight;
\* `detached`: a call made by an instance that was unmounted is in flight.
PanelIdle == [mounted |-> FALSE, isLoading |-> FALSE, error |-> None,
              result |-> None, response |-> None, live |-> 0,
              detached |-> FALSE]
PanelNames == {"generate", "edit", "analyze", "search", "gold"}

\* animateImageWithVeo is not running.  polls, waits, notDone count the
\* calls of getVideosOperation, the 5 s timers and the not-done reports.
AnimIdle == [pc |-> "idle", polls |-> 0, waits |-> 0, notDone |-> 0,
             outcome |-> "none"]
VaIdle == [isLoading |-> FALSE, error |-> None, videoUrl |-> None]
\* the image of the shown panel, the file picked last and what
\* ImageUploader did with it
UploadIdle == [image |-> None, file |-> None, last |-> "none"]

\* The feature panels are not opened.
InitFeatOff ==
    /\ anim = AnimIdle
    /\ va = VaIdle
    /\ panel = [f \in PanelNames |-> PanelIdle]
    /\ upload = UploadIdle

Init ==
    /\ InitApp
    /\ storage \in PersistedSlots
    /\ InitBot
    /\ envKey \in BOOLEAN
    \* the constructor's treatment of a missing key matters only without one
    /\ sdkStrict \in (IF envKey THEN {TRUE} ELSE BOOLEAN)
    /\ InitGwOff
    /\ InitPsOff
    /\ InitFeatOff

-----------------------------------------------------------------------------
(* Actions *)

\* The Chatbot fields a handler leaves, before any effect runs.
BotNow == [messages |-> messages, useProModel |-> useProModel, chat |-> chat,
           error |-> error, isLoading |-> isLoading]

\* The Chatbot state after an event: `base`, or what the [session] effect
\* makes of it when the session prop `sess` is a different object (`changed`).
BotCommit(changed, sess, base) ==
    LET b == IF changed THEN sessionEffect(sess, base.chat) ELSE base
    IN  /\ messages' = b.messages
        /\ useProModel' = b.useProModel
        /\ chat' = b.chat
        /\ error' = b.error
        /\ isLoading' = b.isLoading

\* Commit of an event that calls setChatHistory: the store becomes (h, a),
\* the save effect writes h, and the Chatbot follows the session prop.
Commit(h, a, changed, base) ==
    /\ chatHistory' = h
    /\ activeChatId' = a
    /\ storage' = saveEffect(h)
    /\ BotCommit(changed, activeChatSession(h, a), base)

\* First commit of App: the Chatbot mounts with session = null and runs its
\* [session] effect; the load effect reads the slot and queues the validated
\* list; the save effect writes the chatHistory of this render, the empty list.
AppMount ==
    /\ phase = "init"
    /\ LET loaded == loadHistory(storage)
           b == sessionEffect(None, chat)
       IN  /\ chatHistory' = IF loaded = None THEN <<>> ELSE loaded[1]
           /\ storage' = saveEffect(<<>>)
           /\ phase' = IF loaded = None THEN "ready" ELSE "loaded"
           /\ messages' = b.messages
           /\ useProModel' = b.useProModel
           /\ chat' = b.chat
           /\ error' = b.error
           /\ isLoading' = b.isLoading
    /\ UNCHANGED <<activeChatId, now, runs, timers, submits, restVars>>

AppSettleNoSave ==
    /\ phase = "loaded"
    /\ phase' = "ready"
    /\ UNCHANGED <<storage, chatHistory, activeChatId, now, botVars, restVars>>
\* Second commit of App, after setChatHistory(validHistory): the save effect
\* writes the loaded list.
AppSettle ==
    /\ phase = "loaded"
    /\ storage' = saveEffect(chatHistory)
    /\ phase' = "ready"
    /\ UNCHANGED <<chatHistory, activeChatId, now, botVars, restVars>>

\* The guard of handleSubmit: if (!input.trim() || isLoading || !chat) return;
SubmitRejected(text) == Trim(text) = <<>> \/ isLoading \/ chat = None

\* handleSubmit up to its first await, with `text` in the chat box (the box
\* is the user's to fill at any time, so its content is an input of the
\* event).  `limit` bounds the accepted submissions.
handleSubmit(text, limit) ==
    /\ phase = "ready"
    /\ IF SubmitRejected(text)
       THEN UNCHANGED vars
       ELSE /\ submits < limit
            /\ LET newMessages == Append(messages, UserTurn(text))
               IN  /\ messages' = newMessages
                   /\ runs' = Append(runs,
                                 [phase |-> "open",
                                  live |-> TRUE,
                                  session |-> activeChatSession(chatHistory, activeChatId),
                                  newMessages |-> newMessages,
                                  currentInput |-> text,
                                  usePro |-> useProModel,
                                  fullResponse |-> <<>>,
                                  nfrags |-> 0,
                                  keyed |-> chat[1].keyed])
            /\ isLoading' = TRUE
            /\ error' = None
            /\ timers' = timers + 1
            /\ submits' = submits + 1
            \* the request leaves the browser: its stream ends at a later
            \* reading of the clock than the one of this event
            /\ now' = now + 1
            /\ UNCHANGED <<chatHistory, activeChatId, storage, phase, chat,
                           useProModel, restVars>>

\* The callback of setTimeout(.., 10): append the empty model turn.
TimerFire ==
    /\ phase = "ready"
    /\ timers > 0
    /\ timers' = timers - 1
    /\ messages' = Append(messages, ModelTurn(<<>>))
    /\ UNCHANGED <<appVars, chat, isLoading, error, useProModel, runs,
                   submits, restVars>>

\* One iteration of the for-await loop of submission r.  The updater reads
\* prev[prev.length - 1].role: with an empty transcript it throws while
\* React renders, and the tree is unmounted.
StreamFragment(r) ==
    /\ phase = "ready"
    /\ runs[r].phase = "open"
    /\ runs[r].keyed
    /\ runs[r].nfrags < Len(Script(r))
    /\ LET full == accumulate(runs[r].fullResponse, Script(r)[runs[r].nfrags + 1])
       IN  /\ runs' = [runs EXCEPT ![r].fullResponse = full,
                                   ![r].nfrags = runs[r].nfrags + 1]
           /\ IF ~runs[r].live
              THEN UNCHANGED <<messages, phase>>
              ELSE IF messages = <<>>
              THEN /\ phase' = "crashed"
                   /\ UNCHANGED messages
              ELSE /\ messages' = applyChunk(messages, full)
                   /\ UNCHANGED phase
    /\ UNCHANGED <<chatHistory, activeChatId, storage, now, chat, isLoading,
                   error, useProModel, timers, submits, restVars>>

\* handleAddNewSession's argument at the completion of submission r.
newSessionOf(run, clock) ==
    [id |-> clock,
     title |-> sessionTitle(run.currentInput),
     messages |-> Append(run.newMessages, ModelTurn(run.fullResponse)),
     model |-> IF run.usePro THEN Pro ELSE Flash]

\* handleUpdateSession's argument at the completion of submission r.
updatedSessionOf(run) ==
    [run.session[1] EXCEPT
        !.messages = Append(run.newMessages, ModelTurn(run.fullResponse))]

\* What Date.now() may return at the end of a stream: the time reached so
\* far (the same millisecond as another stream's end), or a later one.
ClockReads == {now, now + 1}

\* The stream of submission r ends: the code after the loop, and finally.
\* `clock` is what Date.now() returns when a session is created.
StreamComplete(r, clock) ==
    /\ phase = "ready"
    /\ runs[r].phase = "open"
    /\ runs[r].keyed
    /\ LET run == runs[r]
           base == IF run.live THEN [BotNow EXCEPT !.isLoading = FALSE] ELSE BotNow
       IN  IF run.session # None
           THEN LET u == updatedSessionOf(run)
                IN  /\ clock = now
                    /\ Commit(updateSession(chatHistory, u), activeChatId,
                              activeChatId = Some(u.id) /\ u.id \in SessionIds(chatHistory),
                              base)
           ELSE LET s == newSessionOf(run, clock)
                IN  Commit(addSession(chatHistory, s), Some(s.id), TRUE, base)
    /\ now' = clock
    /\ runs' = [runs EXCEPT ![r] = IdleRun]
    /\ UNCHANGED <<phase, timers, submits, restVars>>

\* sendMessageStream or the iteration of submission r throws: catch, finally.
StreamFail(r) ==
    /\ phase = "ready"
    /\ runs[r].phase = "open"
    /\ IF runs[r].live
       THEN /\ error' = Some("stream")
            /\ messages' = SliceOff(messages, 2)
            /\ isLoading' = FALSE
       ELSE UNCHANGED <<error, messages, isLoading>>
    /\ runs' = [runs EXCEPT ![r] = IdleRun]
    /\ UNCHANGED <<appVars, chat, useProModel, timers, submits, restVars>>

\* The "deep research" checkbox is toggled.
handleModelChange(isPro) ==
    /\ phase = "ready"
    /\ isPro # useProModel
    /\ LET newModel == IF isPro THEN Pro ELSE Flash
           ic == initializeChat(newModel, messages, chat)
           base == [BotNow EXCEPT !.useProModel = isPro, !.chat = ic.chat,
                                  !.error = ic.error, !.isLoading = FALSE]
           session == activeChatSession(chatHistory, activeChatId)
       IN  IF session # None
           THEN Commit(updateSession(chatHistory, [session[1] EXCEPT !.model = newModel]),
                       activeChatId, TRUE, base)
           ELSE /\ BotCommit(FALSE, None, base)
                /\ UNCHANGED <<chatHistory, activeChatId, storage>>
    /\ UNCHANGED <<phase, now, runs, timers, submits, restVars>>

\* "New chat" in the sidebar.
handleNewChat ==
    /\ phase = "ready"
    /\ activeChatId' = None
    /\ BotCommit(activeChatSession(chatHistory, activeChatId) # None, None, BotNow)
    /\ UNCHANGED <<chatHistory, storage, phase, now, runs, timers, submits, restVars>>

\* A session of the sidebar is clicked.
handleSelectChat(id) ==
    /\ phase = "ready"
    /\ activeChatId' = Some(id)
    /\ LET old == activeChatSession(chatHistory, activeChatId)
           new == activeChatSession(chatHistory, Some(id))
       IN  BotCommit(new # old, new, BotNow)
    /\ UNCHANGED <<chatHistory, storage, phase, now, runs, timers, submits, restVars>>

\* The trash button of a session of the sidebar is clicked.
handleDeleteChat(id) ==
    /\ phase = "ready"
    /\ Commit(deleteSession(chatHistory, id),
              IF activeChatId = Some(id) THEN None ELSE activeChatId,
              activeChatId = Some(id),
              BotNow)
    /\ UNCHANGED <<phase, now, runs, timers, submits, restVars>>

\* A feature button of the sidebar is clicked and then the chat button:
\* renderFeature unmounts the Chatbot and mounts a new one, whose [session]
\* effect runs; the state setters of the old instance no longer do anything.
featureRoundTrip ==
    /\ phase = "ready"
    /\ LET b == sessionEffect(activeChatSession(chatHistory, activeChatId), None)
       IN  /\ messages' = b.messages
           /\ useProModel' = b.useProModel
           /\ chat' = b.chat
           /\ error' = b.error
           /\ isLoading' = b.isLoading
    /\ timers' = 0
    /\ runs' = [r \in DOMAIN runs |-> [runs[r] EXCEPT !.live = FALSE]]
    /\ UNCHANGED <<appVars, submits, restVars>>

\* Every event but the form submit.
Other ==
    \/ AppMount
    \/ AppSettle
    \/ featureRoundTrip
    \/ TimerFire
    \/ \E r \in DOMAIN runs : StreamFragment(r)
    \/ \E r \in DOMAIN runs : \E clock \in ClockReads : StreamComplete(r, clock)
    \/ \E r \in DOMAIN runs : StreamFail(r)
    \/ \E isPro \in BOOLEAN : handleModelChange(isPro)
    \/ handleNewChat
    \/ \E id \in SessionIds(chatHistory) : handleSelectChat(id)
    \/ \E id \in SessionIds(chatHistory) : handleDeleteChat(id)

Next ==
    \/ \E text \in Inputs : handleSubmit(text, MaxSubmits)
    \/ Other

Spec == Init /\ [][Next]_vars

NextRace ==
    \/ \E text \in Inputs : handleSubmit(text, RaceSubmits)
    \/ Other

\* The same program with room for a second submission.
SpecRace == Init /\ [][NextRace]_vars

-----------------------------------------------------------------------------
(* Properties of the chat controller and the session store *)

OpenRuns == {r \in DOMAIN runs : runs[r].phase = "open"}

\* The fragments delivered so far to submission r, concatenated in order.
Delivered(r) == Concat(Script(r), runs[r].nfrags)

\* The identifier under which the completion of submission r records it.
RecordId(r, clock) ==
    IF runs[r].session = None THEN clock ELSE runs[r].session[1].id

\* C1: when a stream completes, the assistant turn recorded for its
\* submission is the concatenation of the delivered fragments, each once and
\* in arrival order: the session the completion writes to the store holds the
\* turns of the submission followed by that assistant turn, and so does the
\* visible transcript when it shows that session.
C1_FragmentsConcatenated ==
    [][\A r \in DOMAIN runs : \A clock \in ClockReads :
          StreamComplete(r, clock) =>
            LET id == RecordId(r, clock)
                final == Append(runs[r].newMessages, ModelTurn(Delivered(r)))
                rec == activeChatSession(chatHistory', Some(id))
            IN  /\ rec # None => rec[1].messages = final
                /\ (rec # None /\ activeChatId' = Some(id)) => messages' = final]_vars

\* A completed two-fragment stream is recorded in the store and shown.
C1_Witness ==
    /\ activeChatSession(chatHistory, activeChatId) # None
    /\ LET s == activeChatSession(chatHistory, activeChatId)[1]
       IN  /\ s.messages # <<>>
           /\ s.messages[Len(s.messages)] = ModelTurn(<<"a", "b">>)
           /\ messages = s.messages

\* C2: while the stream of a submission accepted by the mounted controller
\* is open, a further handleSubmit changes nothing: no turn is added to the
\* transcript and no second stream is started.
C2_NoConcurrentSubmission ==
    [][(\E r \in OpenRuns : runs[r].live) =>
         \A text \in Inputs :
            handleSubmit(text, RaceSubmits) => (messages' = messages /\ runs' = runs)]_vars

\* C3: after a failed stream the visible transcript is what it was
\* immediately before the failed submission.
C3_RollbackRestores ==
    [][\A r \in DOMAIN runs :
          StreamFail(r) => messages' = SliceOff(runs[r].newMessages, 1)]_vars

\* C4: a completion either adds exactly one session (no session at
\* submission), holding the finalized turns and becoming the active session,
\* or (a session at submission) keeps the number of sessions and replaces
\* only the transcript of that session; a failed stream leaves the store alone.
C4_CompletionStoreChange ==
    [][/\ \A r \in DOMAIN runs : \A clock \in ClockReads :
            StreamComplete(r, clock) =>
              LET final == Append(runs[r].newMessages, ModelTurn(runs[r].fullResponse))
              IN  IF runs[r].session = None
                  THEN /\ Len(chatHistory') = Len(chatHistory) + 1
                       /\ Tail(chatHistory') = chatHistory
                       /\ chatHistory'[1].messages = final
                       /\ activeChatSession(chatHistory', activeChatId') = Some(chatHistory'[1])
                  ELSE /\ Len(chatHistory') = Len(chatHistory)
                       /\ \A i \in DOMAIN chatHistory :
                            chatHistory'[i] =
                               IF chatHistory[i].id = runs[r].session[1].id
                               THEN [chatHistory[i] EXCEPT !.messages = final]
                               ELSE chatHistory[i]
       /\ \A r \in DOMAIN runs :
            StreamFail(r) => UNCHANGED <<chatHistory, activeChatId, storage>>]_vars

\* C6: no two sessions of the store have the same identifier.
C6_UniqueIds ==
    \A i, j \in DOMAIN chatHistory : i # j => chatHistory[i].id # chatHistory[j].id

\* C9: once a change of the session list has been processed, the aggregate
\* slot holds the serialization of the whole current list, in order.
C9_WriteThrough ==
    phase \in {"ready", "crashed"} => storage = JSONstringify(chatHistory)

\* The slot follows a list of two sessions.
C9_Witness ==
    /\ phase = "ready"
    /\ Len(chatHistory) = 2
    /\ storage = JSONstringify(chatHistory)

-----------------------------------------------------------------------------
(* usePersistentState: one slot of localStorage per key *)

MaxValueLen == 2    \* longest text typed into a persisted field

Quote == "\""
Backslash == "\\"

RECURSIVE Escape(_)
\* the body of a JSON string literal: quotes and backslashes are escaped
Escape(s) ==
    IF s = <<>> THEN <<>>
    ELSE (IF Head(s) \in {Quote, Backslash} THEN <<Backslash, Head(s)>> ELSE <<Head(s)>>)
            \o Escape(Tail(s))

JSONstringifyRaw(v) == <<Quote>> \o v \o <<Quote>>
\* JSON.stringify of a string value
JSONstringifyText(v) == <<Quote>> \o Escape(v) \o <<Quote>>

RECURSIVE Unescape(_)
\* the characters of the body of a string literal, None where JSON.parse
\* throws: a bare quote, a backslash followed by a character that is no escape
Unescape(s) ==
    IF s = <<>> THEN Some(<<>>)
    ELSE IF Head(s) = Quote THEN None
    ELSE IF Head(s) = Backslash
         THEN IF Len(s) >= 2 /\ s[2] \in {Quote, Backslash}
              THEN LET rest == Unescape(SubSeq(s, 3, Len(s)))
                   IN  IF rest = None THEN None ELSE Some(<<s[2]>> \o rest[1])
              ELSE None
    ELSE LET rest == Unescape(Tail(s))
         IN  IF rest = None THEN None ELSE Some(<<Head(s)>> \o rest[1])

\* JSON.parse of a text made of letters, quotes and backslashes: Some(value)
\* for a string literal, None where it throws.
JSONparseText(text) ==
    IF Len(text) >= 2 /\ Head(text) = Quote /\ text[Len(text)] = Quote
    THEN Unescape(SubSeq(text, 2, Len(text) - 1))
    ELSE None

\* the defaultValue each component passes
PSDefault(k) == IF k = "search-prompt" THEN <<>> ELSE <<"1", "6", ":", "9">>

\* what the component may pass to the setter
PSValues(k) ==
    IF k = "search-prompt" THEN SeqsUpTo({"a", Quote, Backslash}, MaxValueLen)
    ELSE {<<"1", "6", ":", "9">>, <<"9", ":", "1", "6">>}

\* what the slot may hold when something else than the hook wrote it
PSForeign == SeqsUpTo({"a", Quote, Backslash}, MaxValueLen + 1)

\* The initializer of useState in usePersistentState:
\* storedValue ? JSON.parse(storedValue) : defaultValue, default on a throw.
initialState(stored, defaultValue) ==
    IF stored = None \/ stored[1] = <<>> THEN [value |-> defaultValue, from |-> "default"]
    ELSE LET parsed == JSONparseText(stored[1])
         IN  IF parsed = None THEN [value |-> defaultValue, from |-> "default"]
             ELSE [value |-> parsed[1], from |-> "stored"]

\* A component using the hook mounts: the initializer reads the slot, the
\* effect writes the state back.
PSMount(k) ==
    /\ pstate[k] = None
    /\ LET st == initialState(ls[k], PSDefault(k))
       IN  /\ pstate' = [pstate EXCEPT ![k] = Some(st.value)]
           /\ psFrom' = [psFrom EXCEPT ![k] = st.from]
           /\ ls' = [ls EXCEPT ![k] = Some(JSONstringifyText(st.value))]
    /\ UNCHANGED <<psWritten, appVars, botVars, gwVars, featVars>>

\* The setter is called with v: the effect on [key, state] writes the slot.
PSSet(k, v) ==
    /\ pstate[k] # None
    /\ pstate' = [pstate EXCEPT ![k] = Some(v)]
    /\ psFrom' = [psFrom EXCEPT ![k] = "set"]
    /\ ls' = [ls EXCEPT ![k] = Some(JSONstringifyText(v))]
    /\ psWritten' = [psWritten EXCEPT ![k] = Some(v)]
    /\ UNCHANGED <<appVars, botVars, gwVars, featVars>>

\* The page is closed (or the panel unmounted): the state is gone, the slot stays.
PSReload(k) ==
    /\ pstate[k] # None
    /\ pstate' = [pstate EXCEPT ![k] = None]
    /\ psFrom' = [psFrom EXCEPT ![k] = "none"]
    /\ UNCHANGED <<ls, psWritten, appVars, botVars, gwVars, featVars>>

\* While the page is closed the slot is cleared or overwritten from outside.
PSCorrupt(k, slot) ==
    /\ pstate[k] = None
    /\ ls[k] # slot
    /\ ls' = [ls EXCEPT ![k] = slot]
    /\ psWritten' = [psWritten EXCEPT ![k] = None]
    /\ UNCHANGED <<pstate, psFrom, appVars, botVars, gwVars, featVars>>

NextPersist ==
    \/ \E k \in PSKeys : PSMount(k)
    \/ \E k \in PSKeys : \E v \in PSValues(k) : PSSet(k, v)
    \/ \E k \in PSKeys : PSReload(k)
    \/ \E k \in PSKeys : \E text \in PSForeign : PSCorrupt(k, Some(text))
    \/ \E k \in PSKeys : PSCorrupt(k, None)

\* The chat is left alone: only the panels with persisted fields are used.
InitPersist ==
    /\ InitApp
    /\ storage = NoItem
    /\ InitBot
    /\ envKey = TRUE
    /\ sdkStrict = TRUE
    /\ InitGwOff
    /\ InitPsOff
    /\ InitFeatOff

SpecPersist == InitPersist /\ [][NextPersist]_vars

\* The slot of k is absent or holds a text JSON.parse rejects.
Unreadable(k) ==
    \/ ls[k] = None
    \/ ls[k][1] = <<>>
    \/ JSONparseText(ls[k][1]) = None

\* C7: a fresh initialization of the hook under key k yields the value last
\* written through the hook under k; when the slot is absent or its text
\* cannot be parsed it yields the default, and the initialization completes.
C7_RoundTrip ==
    [][\A k \in PSKeys :
          PSMount(k) =>
            /\ psWritten[k] # None => pstate'[k] = psWritten[k]
            /\ Unreadable(k) => pstate'[k] = Some(PSDefault(k))]_vars

\* A value with a quote and a backslash has come back from the slot on a
\* reload, and the other key fell back to its default on a text that does
\* not parse.
C7_Witness ==
    /\ psFrom["search-prompt"] = "stored"
    /\ pstate["search-prompt"] = Some(<<Quote, Backslash>>)
    /\ psWritten["search-prompt"] = Some(<<Quote, Backslash>>)
    /\ psFrom["videoAnimator-aspectRatio"] = "default"
    /\ psWritten["videoAnimator-aspectRatio"] = None
    /\ pstate["videoAnimator-aspectRatio"] = Some(PSDefault("videoAnimator-aspectRatio"))

-----------------------------------------------------------------------------
(* The load effect on what the aggregate slot may hold *)

MaxLoadMsgs == 2    \* turns of the first persisted session

LoadRoles == {"user", "model", "system"}
LoadContents == {None, Some(<<>>), Some(<<"x">>), Some(<<"y">>)}
NullTurn == [isNull |-> TRUE, role |-> "", content |-> None]
LoadTurns ==
    {[isNull |-> FALSE, role |-> r, content |-> c] : r \in LoadRoles, c \in LoadContents}
        \cup {NullTurn}

\* the `messages` member of a persisted session: a list of turns, or no list
LoadMessages ==
    {[isList |-> TRUE, items |-> l] : l \in SeqsUpTo(LoadTurns, MaxLoadMsgs)}
        \cup {[isList |-> FALSE, items |-> <<>>]}

\* a second persisted session: a turn of role system, a turn of empty content
LegacySession ==
    [id |-> 5, title |-> <<"l">>, model |-> Flash,
     messages |-> [isList |-> TRUE,
                   items |-> << [isNull |-> FALSE, role |-> "system", content |-> Some(<<"x">>)],
                                [isNull |-> FALSE, role |-> "model", content |-> Some(<<>>)] >>]]

LoadSlots ==
    {[kind |-> "array",
      sessions |-> <<[id |-> 0, title |-> <<"o">>, model |-> Pro, messages |-> pm]>> \o rest] :
        pm \in LoadMessages, rest \in {<<>>, <<LegacySession>>}}
      \cup {NoItem, Garbage, NotArray}

InitLoad ==
    /\ InitApp
    /\ storage \in LoadSlots
    /\ InitBot
    /\ envKey = TRUE
    /\ sdkStrict = TRUE
    /\ InitGwOff
    /\ InitPsOff
    /\ InitFeatOff

NextLoad ==
    \/ AppMount
    \/ AppSettle

SpecLoad == InitLoad /\ [][NextLoad]_vars

\* The places of the turns of a persisted list that have content.
KeptIdx(items) ==
    {k \in DOMAIN items : items[k].content # None /\ items[k].content[1] # <<>>}

\* The j-th smallest member of a set of numbers.
Nth(S, j) == CHOOSE k \in S : Cardinality({x \in S : x <= k}) = j

\* ms is what the claim says is loaded from the persisted `messages` pm.
TurnsLoadedAs(pm, ms) ==
    IF ~pm.isList THEN ms = <<>>
    ELSE LET K == KeptIdx(pm.items)
         IN  /\ Len(ms) = Cardinality(K)
             /\ \A j \in 1..Len(ms) :
                  LET turn == pm.items[Nth(K, j)]
                  IN  /\ ms[j].content = turn.content[1]
                      /\ ms[j].role = IF turn.role \in {"user", "model"}
                                      THEN turn.role ELSE "user"

\* Every turn of every session of h has role user or model and some content.
TurnsValid(h) ==
    \A i \in DOMAIN h : \A j \in DOMAIN h[i].messages :
        /\ h[i].messages[j].role \in {"user", "model"}
        /\ h[i].messages[j].content # <<>>

\* C8: loading never raises and leaves only turns of role user or model with
\* content; from a persisted list of sessions (each turn an object) every
\* session is loaded in place, a turn of another role is kept as user, a turn
\* without content is dropped, a turn list that is no list becomes empty,
\* and the kept turns keep their order.
C8_LoadTolerance ==
    [][AppMount =>
         /\ phase' # "crashed"
         /\ TurnsValid(chatHistory')
         /\ (storage.kind = "array" /\ ~loadThrows(storage)) =>
               /\ Len(chatHistory') = Len(storage.sessions)
               /\ \A i \in DOMAIN chatHistory' :
                    /\ chatHistory'[i].id = storage.sessions[i].id
                    /\ TurnsLoadedAs(storage.sessions[i].messages,
                                     chatHistory'[i].messages)]_vars

\* Loaded: a first session of two kept turns, the first one coerced from
\* system, and the legacy session with its system turn kept as user and its
\* empty turn dropped.
C8_Witness ==
    /\ phase = "loaded"
    /\ Len(chatHistory) = 2
    /\ chatHistory[1].messages = <<UserTurn(<<"y">>), ModelTurn(<<"x">>)>>
    /\ chatHistory[2].messages = <<UserTurn(<<"x">>)>>

-----------------------------------------------------------------------------
(* The title of a created session *)

MaxInputLen == 45   \* longest text submitted to the chat

TitleAlphabet == <<"0", "1", "2", "3", "4", "5", "6", "7", "8", "9">>

\* a text of n characters that differ from place to place
TitleText(n) == [i \in 1..n |-> TitleAlphabet[((i - 1) % Len(TitleAlphabet)) + 1]]

TitleInputs ==
    {TitleText(n) : n \in 0..MaxInputLen}
        \cup {<<" ">> \o TitleText(n) : n \in {TitleLen - 1, TitleLen}}

InitTitle ==
    /\ InitApp
    /\ storage = NoItem
    /\ InitBot
    /\ envKey = TRUE
    /\ sdkStrict = TRUE
    /\ InitGwOff
    /\ InitPsOff
    /\ InitFeatOff

\* One conversation is followed from the first submission to its session.
NextTitle ==
    \/ AppMount
    \/ runs = <<>> /\ \E text \in TitleInputs : handleSubmit(text, MaxSubmits)
    \/ TimerFire
    \/ \E r \in DOMAIN runs : StreamFragment(r)
    \/ \E r \in DOMAIN runs : \E clock \in ClockReads : StreamComplete(r, clock)
    \/ handleNewChat

SpecTitle == InitTitle /\ [][NextTitle]_vars

\* C5: the session a completion creates for the submitted input s is titled
\* s when s has at most 30 characters, and the first 30 characters of s
\* followed by "..." when it has more; no title is longer than 33.
C5_TitleDerivation ==
    [][\A r \in DOMAIN runs : \A clock \in ClockReads :
          (StreamComplete(r, clock) /\ runs[r].session = None) =>
             LET s == runs[r].currentInput
                 title == chatHistory'[1].title
             IN  /\ Len(s) <= TitleLen => title = s
                 /\ Len(s) > TitleLen =>
                       /\ Len(title) = TitleLen + 3
                       /\ \A i \in 1..TitleLen : title[i] = s[i]
                       /\ \A i \in (TitleLen + 1)..(TitleLen + 3) : title[i] = "."
                 /\ Len(title) <= TitleLen + 3]_vars

\* The session of a 45-character input is in the store, titled by the first
\* 30 characters and the ellipsis.
C5_Witness ==
    /\ Len(chatHistory) = 1
    /\ Len(chatHistory[1].messages[1].content) = 45
    /\ chatHistory[1].title = TitleText(TitleLen) \o Ellipsis

-----------------------------------------------------------------------------
(* The credential check of geminiService, and the chat beside it *)

\* the functions of geminiService the panels call directly
GwOps == {"editImageWithPrompt", "generateImageWithPrompt", "analyzeImage",
          "searchWithGoogle"}

\* getApiKey().  `selected`: the user picks a key in the dialog openSelectKey
\* shows; `injected`: the host then sets process.env.API_KEY.
getApiKey(selected, injected) ==
    LET hasKey == aistudio /\ hostHasKey
        flow == ~envKey /\ ~hasKey /\ aistudio
        key == envKey \/ (flow /\ selected /\ injected)
    IN  [absent |-> ~envKey /\ ~hasKey,
         flow |-> flow,
         hostHasKey |-> hostHasKey \/ (flow /\ selected),
         envKey |-> key,
         throws |-> ~key]

\* A function of geminiService is called: getApiKey, then (unless it threw)
\* the request to the provider.
GatewayCall(op, selected, injected) ==
    /\ LET k == getApiKey(selected, injected)
       IN  /\ envKey' = k.envKey
           /\ hostHasKey' = k.hostHasKey
           /\ gw' = [op |-> op, absent |-> k.absent, flow |-> k.flow, keyed |-> k.envKey,
                     result |-> IF k.throws THEN "CredentialUnavailable" ELSE "network"]
    /\ UNCHANGED <<sdkStrict, aistudio, apiKeySelected, appVars, botVars, psVars>>

\* VideoAnimator mounts: apiKeySelected starts false, the effect asks the host.
\* (An invocation of animateImageWithVeo made by the instance that was
\* unmounted is followed no further: its state setters do nothing.)
VideoAnimatorMount ==
    /\ apiKeySelected' = (aistudio /\ hostHasKey)
    /\ va' = VaIdle
    /\ anim' = AnimIdle
    /\ UNCHANGED <<envKey, sdkStrict, aistudio, hostHasKey, gw, panel, upload,
                   appVars, botVars, psVars>>

\* VideoAnimator.handleSelectKey: the dialog, then setApiKeySelected(true).
handleSelectKey(selected, injected) ==
    /\ hostHasKey' = (hostHasKey \/ (aistudio /\ selected))
    /\ envKey' = (envKey \/ (aistudio /\ selected /\ injected))
    /\ apiKeySelected' = TRUE
    /\ UNCHANGED <<sdkStrict, aistudio, gw, appVars, botVars, psVars, featVars>>

\* VideoAnimator.handleAnimate with an image picked (its button is disabled
\* while isLoading): up to the request animateImageWithVeo sends first.
handleAnimate(selected, injected) ==
    /\ ~va.isLoading
    /\ IF ~apiKeySelected
       THEN handleSelectKey(selected, injected)
       ELSE /\ GatewayCall("animateImageWithVeo", selected, injected)
            /\ IF getApiKey(selected, injected).throws
               THEN /\ va' = [isLoading |-> FALSE, error |-> Some("CredentialUnavailable"),
                              videoUrl |-> None]
                    /\ anim' = [AnimIdle EXCEPT !.outcome = "CredentialUnavailable"]
               ELSE /\ va' = [isLoading |-> TRUE, error |-> None, videoUrl |-> None]
                    /\ anim' = [AnimIdle EXCEPT !.pc = "submitted"]
            /\ UNCHANGED <<panel, upload>>

InitGateway ==
    /\ InitApp
    /\ storage = NoItem
    /\ InitBot
    /\ envKey \in BOOLEAN
    /\ sdkStrict \in (IF envKey THEN {TRUE} ELSE BOOLEAN)
    /\ aistudio \in BOOLEAN
    /\ hostHasKey \in (IF aistudio THEN BOOLEAN ELSE {FALSE})
    /\ apiKeySelected = FALSE
    /\ gw = GwIdle
    /\ InitPsOff
    /\ InitFeatOff

NextGateway ==
    \/ AppMount
    \/ \E text \in Inputs : handleSubmit(text, MaxSubmits)
    \/ TimerFire
    \/ \E r \in DOMAIN runs : StreamFragment(r)
    \/ \E r \in DOMAIN runs : \E clock \in ClockReads : StreamComplete(r, clock)
    \/ \E r \in DOMAIN runs : StreamFail(r)
    \/ \E isPro \in BOOLEAN : handleModelChange(isPro)
    \/ \E op \in GwOps : \E selected, injected \in BOOLEAN :
          GatewayCall(op, selected, injected) /\ UNCHANGED featVars
    \/ VideoAnimatorMount
    \/ \E selected, injected \in BOOLEAN : handleSelectKey(selected, injected)
    \/ \E selected, injected \in BOOLEAN : handleAnimate(selected, injected)

SpecGateway == InitGateway /\ [][NextGateway]_vars

\* What the functions of geminiService do about the credential: the
\* selection dialog is shown when no key is there and the host offers one,
\* and without a key the call ends in CredentialUnavailable, not in a request.
GatewayChecksCredential ==
    gw.op # "none" =>
        /\ (gw.absent /\ aistudio) => gw.flow
        /\ gw.result = "network" => gw.keyed
        /\ ~gw.keyed => gw.result = "CredentialUnavailable"

\* C10: every operation on the provider, the chat included, checks the
\* credential first: a gateway function shows the selection dialog when the
\* credential is absent and fails with CredentialUnavailable, sending nothing,
\* when it stays absent; a chat is opened and a chat stream is requested only
\* with a credential, and opening the chat without one ends in
\* CredentialUnavailable.
C10_CredentialFirst ==
    /\ GatewayChecksCredential
    /\ chat # None => chat[1].keyed
    /\ \A r \in OpenRuns : runs[r].keyed
    /\ (phase = "ready" /\ ~envKey) => error = Some("CredentialUnavailable")

-----------------------------------------------------------------------------
(* animateImageWithVeo: the request, the poll loop, the download *)

MaxPolls == 3       \* not-done reports the provider gives one operation

\* What the provider answers to generateVideos or getVideosOperation: the
\* operation (not done, done with or without a video uri), or an error
\* (message 'Requested entity was not found', or another one).
Reports == {"notDone", "doneUri", "doneNoUri", "notFound", "otherError"}

operationDoneNever(report) == FALSE
\* operation.done
operationDone(report) == report \in {"doneUri", "doneNoUri"}

\* error.message?.includes('Requested entity was not found')
isEntityNotFound(report) == report = "notFound"

\* err.message?.includes('دوباره انتخاب کنید') in the catch of handleAnimate:
\* true of the message animateImageWithVeo throws for an invalid key only.
asksReselect(outcome) == outcome = "CredentialInvalidated"

\* The not-done reports observed, counted by what the provider said.
SeenNotDone(report) == anim.notDone + (IF report = "notDone" THEN 1 ELSE 0)

animThrowsNoFinally(outcome, report) ==
    /\ anim' = [anim EXCEPT !.pc = "idle", !.outcome = outcome,
                            !.notDone = SeenNotDone(report)]
    /\ va' = [va EXCEPT !.error = Some(outcome)]
    /\ apiKeySelected' = IF asksReselect(outcome) THEN FALSE ELSE apiKeySelected
\* animateImageWithVeo has thrown `outcome`: catch and finally of handleAnimate.
animThrows(outcome, report) ==
    /\ anim' = [anim EXCEPT !.pc = "idle", !.outcome = outcome,
                            !.notDone = SeenNotDone(report)]
    /\ va' = [va EXCEPT !.isLoading = FALSE, !.error = Some(outcome)]
    /\ apiKeySelected' = IF asksReselect(outcome) THEN FALSE ELSE apiKeySelected

animGoesOnToFetch(report) ==
    IF ~operationDone(report)
    THEN /\ anim' = [anim EXCEPT !.pc = "waiting", !.notDone = SeenNotDone(report)]
         /\ UNCHANGED <<va, apiKeySelected>>
    ELSE /\ anim' = [anim EXCEPT !.pc = "fetching", !.notDone = SeenNotDone(report)]
         /\ UNCHANGED <<va, apiKeySelected>>
\* The code after an operation was received without error: the while
\* condition, and after the loop the test of the download link.
animGoesOn(report) ==
    IF ~operationDone(report)
    THEN /\ anim' = [anim EXCEPT !.pc = "waiting", !.notDone = SeenNotDone(report)]
         /\ UNCHANGED <<va, apiKeySelected>>
    ELSE IF report = "doneUri"
    THEN /\ anim' = [anim EXCEPT !.pc = "fetching", !.notDone = SeenNotDone(report)]
         /\ UNCHANGED <<va, apiKeySelected>>
    ELSE animThrows("NoVideoProduced", report)

\* generateVideos settles.  It is awaited outside any try: an error of the
\* provider leaves animateImageWithVeo as it is.
animSubmitted(report) ==
    /\ anim.pc = "submitted"
    /\ report = "notDone" => anim.notDone < MaxPolls
    /\ IF report \in {"notFound", "otherError"}
       THEN animThrows(report, report)
       ELSE animGoesOn(report)
    /\ UNCHANGED <<envKey, sdkStrict, aistudio, hostHasKey, gw, panel, upload,
                   appVars, botVars, psVars>>

\* The 5000 ms timer of the loop fires and getVideosOperation is called.
animTimer ==
    /\ anim.pc = "waiting"
    /\ anim' = [anim EXCEPT !.pc = "polling", !.waits = anim.waits + 1,
                            !.polls = anim.polls + 1]
    /\ UNCHANGED <<va, panel, upload, gwVars, appVars, botVars, psVars>>

\* getVideosOperation settles.  On 'Requested entity was not found' the
\* selection dialog is shown (`selected`, `injected`: what the user and the
\* host do in it) and the invalid-key error is thrown; another error is rethrown.
animPolled(report, selected, injected) ==
    /\ anim.pc = "polling"
    /\ report = "notDone" => anim.notDone < MaxPolls
    /\ IF isEntityNotFound(report)
       THEN /\ animThrows("CredentialInvalidated", report)
            /\ hostHasKey' = (hostHasKey \/ (aistudio /\ selected))
            /\ envKey' = (envKey \/ (aistudio /\ selected /\ injected))
       ELSE /\ IF report = "otherError"
               THEN animThrows(report, report)
               ELSE animGoesOn(report)
            /\ UNCHANGED <<hostHasKey, envKey>>
    /\ UNCHANGED <<sdkStrict, aistudio, gw, panel, upload, appVars, botVars, psVars>>

\* fetch of the download link and response.blob() settle.
animFetched(ok) ==
    /\ anim.pc = "fetching"
    /\ IF ok
       THEN /\ anim' = [anim EXCEPT !.pc = "idle", !.outcome = "done"]
            /\ va' = [va EXCEPT !.isLoading = FALSE, !.videoUrl = Some("blob")]
            /\ UNCHANGED apiKeySelected
       ELSE animThrows("DownloadFailed", "none")
    /\ UNCHANGED <<envKey, sdkStrict, aistudio, hostHasKey, gw, panel, upload,
                   appVars, botVars, psVars>>

InitAnim ==
    /\ InitApp
    /\ storage = NoItem
    /\ InitBot
    /\ envKey \in BOOLEAN
    /\ sdkStrict = TRUE
    /\ aistudio \in BOOLEAN
    /\ hostHasKey \in (IF aistudio THEN BOOLEAN ELSE {FALSE})
    /\ apiKeySelected = FALSE
    /\ gw = GwIdle
    /\ InitPsOff
    /\ InitFeatOff

NextAnim ==
    \/ VideoAnimatorMount
    \/ \E selected, injected \in BOOLEAN : handleSelectKey(selected, injected)
    \/ \E selected, injected \in BOOLEAN : handleAnimate(selected, injected)
    \/ \E report \in Reports : animSubmitted(report)
    \/ animTimer
    \/ \E report \in Reports : \E selected, injected \in BOOLEAN :
          animPolled(report, selected, injected)
    \/ \E ok \in BOOLEAN : animFetched(ok)

SpecAnim == InitAnim /\ [][NextAnim]_vars

\* The provider has reported the operation done.
AnimSawDone ==
    \/ anim.pc = "fetching"
    \/ anim.outcome \in {"done", "NoVideoProduced", "DownloadFailed"}

\* C11: animateImageWithVeo calls getVideosOperation once for each not-done
\* report it has observed (the call for the latest one may still be waiting
\* for its timer) and no more once the operation is reported done; after two
\* not-done reports and a done one it has polled exactly twice.
C11_OnePollPerNotDone ==
    /\ anim.pc = "submitted" => anim.polls = 0
    /\ anim.pc = "waiting" => anim.polls + 1 = anim.notDone
    /\ anim.pc = "polling" => anim.polls = anim.notDone
    /\ AnimSawDone => anim.polls = anim.notDone
    /\ (anim.outcome = "done" /\ anim.notDone = 2) => anim.polls = 2

\* Not done twice, then done: the video has been yielded after two polls.
C11_Witness ==
    /\ anim.outcome = "done"
    /\ anim.notDone = 2
    /\ anim.polls = 2
    /\ va.videoUrl # None

\* What the claim says of a step in which the provider answered `report`.
SurfacedAsClaimed(report) ==
    /\ report = "notFound" =>
          /\ anim'.outcome = "CredentialInvalidated"
          /\ va'.error = Some("CredentialInvalidated")
          /\ ~apiKeySelected'
    /\ report = "otherError" =>
          /\ anim'.outcome = "otherError"
          /\ UNCHANGED <<apiKeySelected, hostHasKey, envKey>>

\* C12: whichever request of the animation the provider answers with 'entity
\* not found' (generateVideos or a poll), the caller gets
\* CredentialInvalidated and apiKeySelected is reset, so that the next
\* attempt starts with the key selection; any other provider error reaches
\* the caller as it is and leaves the credential state alone.
C12_EntityNotFound ==
    [][/\ \A report \in Reports : animSubmitted(report) => SurfacedAsClaimed(report)
       /\ \A report \in Reports : \A selected, injected \in BOOLEAN :
            animPolled(report, selected, injected) => SurfacedAsClaimed(report)]_vars

(***************************************************************************)
(* The provider responses the image, analysis and search functions of      *)
(* geminiService read, and what the functions make of them.                *)
(***************************************************************************)
\* the longest list (grounding chunks, parts, generated images) in a response
MaxItems == 2

\* `x` is truthy in JavaScript, for a string or undefined
Truthy(x) == x # None /\ x[1] # ""

NoImageProduced == "NoImageProduced"
\* reading a property of undefined
TypeError == "TypeError"

\* what an async function of geminiService settles with
Resolved(v) == [error |-> None, value |-> Some(v)]
Rejected(msg) == [error |-> Some(msg), value |-> None]

\* ---- searchWithGoogle ----
Uris == {None, Some(""), Some("a"), Some("b")}
Titles == {None, Some(""), Some("T")}
Webs == {None} \cup {Some([uri |-> u, title |-> t]) : u \in Uris, t \in Titles}
Chunks == {[web |-> w] : w \in Webs}
GroundingMetadata ==
    {None, Some([groundingChunks |-> None])}
    \cup {Some([groundingChunks |-> Some(s)]) : s \in SeqsUpTo(Chunks, MaxItems)}
SearchResponses ==
    {[text |-> "answer", candidates |-> <<>>]}
    \cup {[text |-> "answer", candidates |-> <<[groundingMetadata |-> gm]>>] :
              gm \in GroundingMetadata}

\* response.candidates?.[0]?.groundingMetadata?.groundingChunks
groundingChunks(response) ==
    IF response.candidates = <<>> THEN None
    ELSE IF response.candidates[1].groundingMetadata = None THEN None
    ELSE response.candidates[1].groundingMetadata[1].groundingChunks

\* chunk => ({ uri: chunk.web?.uri, title: chunk.web?.title })
chunkSource(chunk) ==
    IF chunk.web = None THEN [uri |-> None, title |-> None]
    ELSE [uri |-> chunk.web[1].uri, title |-> chunk.web[1].title]

sourceKeptUriOnly(s) == Truthy(s.uri)
\* s => s.uri && s.title
sourceKept(s) == Truthy(s.uri) /\ Truthy(s.title)

searchSources(response) ==
    LET chunks == groundingChunks(response)
    IN  IF chunks = None THEN <<>>
        ELSE SelectSeq([i \in 1..Len(chunks[1]) |-> chunkSource(chunks[1][i])],
                       sourceKept)

searchWithGoogle(response) ==
    Resolved([text |-> response.text, sources |-> searchSources(response)])

\* ---- editImageWithPrompt ----
TextPart == [inlineData |-> None, text |-> Some("t")]
ImagePart(data, mimeType) ==
    [inlineData |-> Some([data |-> data, mimeType |-> mimeType]), text |-> None]
Parts == {TextPart, ImagePart("x", "image/png"), ImagePart("y", "image/jpeg"),
          ImagePart("", "image/png")}
Contents ==
    {None, Some([parts |-> None])}
    \cup {Some([parts |-> Some(s)]) : s \in SeqsUpTo(Parts, MaxItems)}
EditResponses ==
    {[candidates |-> <<>>]}
    \cup {[candidates |-> <<[content |-> c]>>] : c \in Contents}

\* response.candidates?.[0]?.content?.parts || []
responseParts(response) ==
    IF response.candidates = <<>> THEN <<>>
    ELSE IF response.candidates[1].content = None THEN <<>>
    ELSE IF response.candidates[1].content[1].parts = None THEN <<>>
    ELSE response.candidates[1].content[1].parts[1]

editImageWithPrompt(response) ==
    LET parts == responseParts(response)
        found == {i \in 1..Len(parts) : parts[i].inlineData # None}
    IN  IF found = {} THEN Rejected(NoImageProduced)
        ELSE LET first == CHOOSE i \in found : \A j \in found : i <= j
             IN  Resolved([base64 |-> parts[first].inlineData[1].data,
                           mimeType |-> parts[first].inlineData[1].mimeType])

\* ---- generateImageWithPrompt ----
ImageBytes == {None, Some(""), Some("x")}
GeneratedImage == {[image |-> None]} \cup {[image |-> Some([imageBytes |-> b])] : b \in ImageBytes}
GenerateResponses ==
    {[generatedImages |-> None]}
    \cup {[generatedImages |-> Some(s)] : s \in SeqsUpTo(GeneratedImage, MaxItems)}

\* response.generatedImages[0].image.imageBytes, without optional chaining
generateImageWithPrompt(response) ==
    IF response.generatedImages = None THEN Rejected(TypeError)
    ELSE IF response.generatedImages[1] = <<>> THEN Rejected(TypeError)
    ELSE IF response.generatedImages[1][1].image = None THEN Rejected(TypeError)
    ELSE LET base64ImageBytes == response.generatedImages[1][1].image[1].imageBytes
         IN  IF Truthy(base64ImageBytes)
             THEN Resolved([base64 |-> base64ImageBytes[1], mimeType |-> "image/png"])
             ELSE Rejected(NoImageProduced)

\* ---- analyzeImage, fetchGoldPrices ----
AnalyzeResponses == {[text |-> "answer"], [text |-> ""]}
analyzeImage(response) == Resolved(response.text)
GoldResponses == {[prices |-> "prices"]}
fetchGoldPrices(response) == Resolved(response.prices)

Responses(p) ==
    CASE p = "generate" -> GenerateResponses
      [] p = "edit" -> EditResponses
      [] p = "analyze" -> AnalyzeResponses
      [] p = "search" -> SearchResponses
      [] p = "gold" -> GoldResponses

\* the function of geminiService the panel calls, after the response came
service(p, response) ==
    CASE p = "generate" -> generateImageWithPrompt(response)
      [] p = "edit" -> editImageWithPrompt(response)
      [] p = "analyze" -> analyzeImage(response)
      [] p = "search" -> searchWithGoogle(response)
      [] p = "gold" -> fetchGoldPrices(response)

(***************************************************************************)
(* The feature panels: ImageGenerator, ImageEditor, ImageAnalyzer, Search  *)
(* and GoldPriceViewer.  App.renderFeature renders the panel of the active *)
(* feature only, so choosing another feature unmounts the panel shown and  *)
(* its state is gone; what a call still in flight sets afterwards is       *)
(* dropped by React.  The buttons are disabled on a blank prompt, so the   *)
(* handlers' own test of the prompt never fails and the prompt is left out.*)
(***************************************************************************)
\* the calls one instance of a panel has in flight at most
MaxCalls == 2

\* err.message of what the gateway rejects with before the response is read:
\* no credential, a provider failure, an error without a message
GatewayFailures == {"CredentialUnavailable", "ProviderError", ""}

\* err.message || '...'
errorShown(msg, p) ==
    IF msg # "" THEN msg
    ELSE IF p = "gold" THEN "FetchFailed" ELSE "Unexpected"

\* the useState initial values; GoldPriceViewer starts loading and its mount
\* effect calls loadPrices
PanelMounted(p) ==
    [PanelIdle EXCEPT !.mounted = TRUE,
                      !.isLoading = (p = "gold"),
                      !.result = IF p = "analyze" THEN Some("") ELSE None,
                      !.live = IF p = "gold" THEN 1 ELSE 0]

unmounted(s) == [PanelIdle EXCEPT !.detached = s.detached \/ s.live > 0]

\* setActiveFeature(f), for a panel that is not shown
showFeature(f) ==
    /\ ~panel[f].mounted
    /\ panel' = [q \in PanelNames |->
                    IF q = f
                    THEN [PanelMounted(f) EXCEPT !.detached = panel[f].detached]
                    ELSE unmounted(panel[q])]
    /\ upload' = UploadIdle
    /\ UNCHANGED <<anim, va, appVars, botVars, gwVars, psVars>>

\* setActiveFeature of a feature that is none of these panels
leaveFeature ==
    /\ \E q \in PanelNames : panel[q].mounted
    /\ panel' = [q \in PanelNames |-> unmounted(panel[q])]
    /\ upload' = UploadIdle
    /\ UNCHANGED <<anim, va, appVars, botVars, gwVars, psVars>>

\* handleGenerate, handleAnalyze, handleSearch, loadPrices, up to the await.
\* ImageEditor keeps generatedImage, GoldPriceViewer keeps prices.
panelStart(p) ==
    /\ panel[p].mounted
    /\ ~panel[p].isLoading
    /\ panel[p].live < MaxCalls
    /\ p \in {"edit", "analyze"} => upload.image # None
    /\ panel' = [panel EXCEPT ![p] =
                    [@ EXCEPT !.isLoading = TRUE,
                              !.error = None,
                              !.result = CASE p \in {"generate", "search"} -> None
                                           [] p = "analyze" -> Some("")
                                           [] OTHER -> @,
                              !.response = None,
                              !.live = @ + 1]]
    /\ UNCHANGED <<anim, va, upload, appVars, botVars, gwVars, psVars>>

\* catch (err) { setError(...) } finally { setIsLoading(false) }
panelCatches(p, msg) ==
    [panel[p] EXCEPT !.isLoading = FALSE,
                     !.error = Some(errorShown(msg, p)),
                     !.live = @ - 1]

\* The provider responds to a call of the instance shown.
panelResolved(p, response) ==
    /\ panel[p].live > 0
    /\ LET r == service(p, response)
       IN  panel' = [panel EXCEPT ![p] =
                        IF r.error = None
                        THEN [@ EXCEPT !.isLoading = FALSE,
                                       !.result = r.value,
                                       !.response = Some(response),
                                       !.live = @ - 1]
                        ELSE [panelCatches(p, r.error[1]) EXCEPT
                                       !.response = Some(response)]]
    /\ UNCHANGED <<anim, va, upload, appVars, botVars, gwVars, psVars>>

\* The gateway rejects a call of the instance shown.
panelRejected(p, msg) ==
    /\ panel[p].live > 0
    /\ panel' = [panel EXCEPT ![p] = panelCatches(p, msg)]
    /\ UNCHANGED <<anim, va, upload, appVars, botVars, gwVars, psVars>>

\* A call made by an instance that was unmounted settles: the handler runs
\* to its end and React drops what it sets.
detachedResolved(p) ==
    /\ panel[p].detached
    /\ panel' = [panel EXCEPT ![p].detached = FALSE]
    /\ UNCHANGED <<anim, va, upload, appVars, botVars, gwVars, psVars>>

detachedRejected(p, msg) ==
    /\ panel[p].detached
    /\ panel' = [panel EXCEPT ![p].detached = FALSE]
    /\ UNCHANGED <<anim, va, upload, appVars, botVars, gwVars, psVars>>

\* ImageEditor.handleReset (the button is never disabled)
handleReset ==
    /\ panel["edit"].mounted
    /\ panel' = [panel EXCEPT !["edit"] =
                    [@ EXCEPT !.isLoading = FALSE, !.error = None,
                              !.result = None, !.response = None]]
    /\ upload' = UploadIdle
    /\ UNCHANGED <<anim, va, appVars, botVars, gwVars, psVars>>

\* ---- ImageUploader ----
\* The picked file is read as a data URL and the URL is matched against
\* /^data:(image\/\w+);base64,(.*)$/.  The accept attribute of the input only
\* presets the filter of the browser's file dialog, which the user can widen,
\* so a file of any type can be picked.
TypePng == <<"i", "m", "a", "g", "e", "/", "p", "n", "g">>
TypeJpeg == <<"i", "m", "a", "g", "e", "/", "j", "p", "e", "g">>
TypeWebp == <<"i", "m", "a", "g", "e", "/", "w", "e", "b", "p">>
TypeGif == <<"i", "m", "a", "g", "e", "/", "g", "i", "f">>
TypeSvg == <<"i", "m", "a", "g", "e", "/", "s", "v", "g", "+", "x", "m", "l">>
TypeText == <<"t", "e", "x", "t", "/", "p", "l", "a", "i", "n">>
\* File.type of a file the browser does not know
TypeUnknown == <<>>
FileTypes == {TypePng, TypeJpeg, TypeWebp, TypeGif, TypeSvg, TypeText, TypeUnknown}
\* the content of a file: at most one byte, 0 or 255
FileBytes == {<<>>, <<0>>, <<255>>}
Files == [type : FileTypes, bytes : FileBytes]

OctetStream == <<"a", "p", "p", "l", "i", "c", "a", "t", "i", "o", "n", "/", "o", "c", "t", "e", "t", "-", "s", "t", "r", "e", "a", "m">>
DataPrefix == <<"d", "a", "t", "a", ":">>
ImagePrefix == <<"i", "m", "a", "g", "e", "/">>
Base64Mark == <<";", "b", "a", "s", "e", "6", "4", ",">>

\* base64 of at most one byte
base64(bytes) ==
    IF bytes = <<>> THEN <<>>
    ELSE IF bytes[1] = 0 THEN <<"A", "A", "=", "=">>
    ELSE <<"/", "w", "=", "=">>

\* FileReader.readAsDataURL
readAsDataURL(file) ==
    DataPrefix \o (IF file.type = <<>> THEN OctetStream ELSE file.type)
               \o Base64Mark \o base64(file.bytes)

StartsWith(s, pre) == Len(s) >= Len(pre) /\ SubSeq(s, 1, Len(pre)) = pre

\* \w of a regular expression
WordChars ==
    {"a", "b", "c", "d", "e", "f", "g", "h", "i", "j", "k", "l", "m", "n", "o",
     "p", "q", "r", "s", "t", "u", "v", "w", "x", "y", "z",
     "A", "B", "C", "D", "E", "F", "G", "H", "I", "J", "K", "L", "M", "N", "O",
     "P", "Q", "R", "S", "T", "U", "V", "W", "X", "Y", "Z",
     "0", "1", "2", "3", "4", "5", "6", "7", "8", "9", "_"}

RECURSIVE WordRun(_)
\* the length of the longest prefix of s made of word characters
WordRun(s) == IF s # <<>> /\ Head(s) \in WordChars THEN 1 + WordRun(Tail(s)) ELSE 0

\* base64String.match(/^data:(image\/\w+);base64,(.*)$/): None, or the two
\* groups.  `;` is no word character, so \w+ can only end where the run ends.
matchDataUrl(s) ==
    LET head == DataPrefix \o ImagePrefix
        rest == SubSeq(s, Len(head) + 1, Len(s))
        n == WordRun(rest)
        after == SubSeq(rest, n + 1, Len(rest))
    IN  IF StartsWith(s, head) /\ n >= 1 /\ StartsWith(after, Base64Mark)
        THEN Some([mimeType |-> ImagePrefix \o SubSeq(rest, 1, n),
                   base64Data |-> SubSeq(after, Len(Base64Mark) + 1, Len(after))])
        ELSE None

\* if (base64Data && mimeType)
uploadAccepts(file) ==
    LET m == matchDataUrl(readAsDataURL(file))
    IN  m # None /\ m[1].base64Data # <<>> /\ m[1].mimeType # <<>>

ImageDataOf(file) ==
    LET m == matchDataUrl(readAsDataURL(file))
    IN  [base64 |-> m[1].base64Data, mimeType |-> m[1].mimeType]

\* the panels (of those modelled here) that hold an ImageUploader
UploadPanels == {"edit", "analyze"}

\* ImageUploader.handleFileChange with reader.onloadend, and onImageSelect:
\* ImageEditor.handleImageSelect, or setImage of ImageAnalyzer
handleFileChange(p, file) ==
    /\ panel[p].mounted
    \* the panels render the uploader only while they hold no image
    /\ upload.image = None
    /\ ~panel[p].isLoading
    /\ IF uploadAccepts(file)
       THEN /\ upload' = [image |-> Some(ImageDataOf(file)), file |-> Some(file),
                          last |-> "selected"]
            /\ panel' = [panel EXCEPT ![p] =
                            IF p = "edit"
                            THEN [@ EXCEPT !.result = None, !.error = None,
                                           !.response = None]
                            ELSE @]
       ELSE /\ upload' = [upload EXCEPT !.file = Some(file), !.last = "alert"]
            /\ panel' = panel
    /\ UNCHANGED <<anim, va, appVars, botVars, gwVars, psVars>>

\* The chat is left alone; the credential is taken as given.
InitPanel ==
    /\ InitApp
    /\ storage = NoItem
    /\ InitBot
    /\ envKey = TRUE
    /\ sdkStrict = TRUE
    /\ InitGwOff
    /\ InitPsOff
    /\ InitFeatOff

\* the file picked where the upload is not the subject
SomePng == [type |-> TypePng, bytes |-> <<0>>]

NextPanel ==
    \/ \E f \in PanelNames : showFeature(f)
    \/ leaveFeature
    \/ \E p \in PanelNames : panelStart(p)
    \/ \E p \in PanelNames : \E response \in Responses(p) : panelResolved(p, response)
    \/ \E p \in PanelNames : \E msg \in GatewayFailures : panelRejected(p, msg)
    \/ \E p \in PanelNames : detachedResolved(p)
    \/ \E p \in PanelNames : \E msg \in GatewayFailures : detachedRejected(p, msg)
    \/ handleReset
    \/ \E p \in UploadPanels : handleFileChange(p, SomePng)

SpecPanel == InitPanel /\ [][NextPanel]_vars

\* Search alone
NextSearch ==
    \/ showFeature("search")
    \/ leaveFeature
    \/ panelStart("search")
    \/ \E response \in SearchResponses : panelResolved("search", response)
    \/ \E msg \in GatewayFailures : panelRejected("search", msg)
    \/ detachedResolved("search")
    \/ \E msg \in GatewayFailures : detachedRejected("search", msg)

SpecSearch == InitPanel /\ [][NextSearch]_vars

\* the panels with an upload, their requests failing at the gateway
NextUpload ==
    \/ \E f \in UploadPanels : showFeature(f)
    \/ \E p \in UploadPanels : \E file \in Files : handleFileChange(p, file)
    \/ \E p \in UploadPanels : panelStart(p)
    \/ \E p \in UploadPanels : \E msg \in GatewayFailures : panelRejected(p, msg)
    \/ handleReset

SpecUpload == InitPanel /\ [][NextUpload]_vars

(***************************************************************************)
(* Claims about the feature panels.                                        *)
(***************************************************************************)
\* the grounding entries the provider supplied, none without metadata
SuppliedEntries(response) ==
    IF response.candidates = <<>> THEN <<>>
    ELSE LET gm == response.candidates[1].groundingMetadata
         IN  IF gm = None \/ gm[1].groundingChunks = None THEN <<>>
             ELSE gm[1].groundingChunks[1]

HasUriAndTitle(entry) ==
    /\ entry.web # None
    /\ entry.web[1].uri \notin {None, Some("")}
    /\ entry.web[1].title \notin {None, Some("")}

\* C13: whenever Search holds the result of a provider response, its
\* citations are exactly the supplied grounding entries that have a
\* non-empty uri and a non-empty title, in the order supplied, and there are
\* none when the response carries no grounding metadata.
C13_CitationFiltering ==
    panel["search"].response # None =>
        LET kept == SelectSeq(SuppliedEntries(panel["search"].response[1]),
                              HasUriAndTitle)
        IN  /\ panel["search"].result # None
            /\ panel["search"].result[1].sources =
                   [i \in 1..Len(kept) |-> kept[i].web[1]]

\* Search received the entries (a, no title), (b, T) and shows (b, T) alone.
C13_Witness ==
    /\ panel["search"].response # None
    /\ SuppliedEntries(panel["search"].response[1]) =
           << [web |-> Some([uri |-> Some("a"), title |-> Some("")])],
              [web |-> Some([uri |-> Some("b"), title |-> Some("T")])] >>
    /\ panel["search"].result # None
    /\ panel["search"].result[1].sources =
           << [uri |-> Some("b"), title |-> Some("T")] >>

(***************************************************************************)
(* Claims about the chat controller: model switch and activation.          *)
(***************************************************************************)
VariantOf(isPro) == IF isPro THEN Pro ELSE Flash

\* what C14 says the switch to VariantOf(isPro) does
ModelSwitchAsClaimed(isPro) ==
    LET session == activeChatSession(chatHistory, activeChatId)
    IN  /\ chat' # None
        /\ chat'[1].model = VariantOf(isPro)
        /\ chat'[1].history = messages
        /\ messages' = messages
        /\ chatHistory' =
               [i \in 1..Len(chatHistory) |->
                   IF session # None /\ chatHistory[i].id = session[1].id
                   THEN [chatHistory[i] EXCEPT !.model = VariantOf(isPro)]
                   ELSE chatHistory[i]]

\* C14: a model switch (where a chat can be opened) re-opens the chat under
\* the new variant seeded with the turns that were visible, leaves the
\* visible transcript as it was, and changes nothing in the session store
\* but the variant recorded on the active session.
C14_ModelSwitch ==
    [][\A isPro \in BOOLEAN :
          (handleModelChange(isPro) /\ (envKey \/ ~sdkStrict))
              => ModelSwitchAsClaimed(isPro)]_vars

\* the visible transcript is what the store holds for the active session
VisibleIsStored ==
    LET session == activeChatSession(chatHistory, activeChatId)
    IN  session # None => messages = session[1].messages

\* Where the visible transcript is the stored one, the switch is as claimed.
ModelSwitchOfStoredTranscript ==
    [][\A isPro \in BOOLEAN :
          (handleModelChange(isPro) /\ (envKey \/ ~sdkStrict) /\ VisibleIsStored)
              => ModelSwitchAsClaimed(isPro)]_vars

\* The Chatbot is activated in this step: it mounts, or the session its
\* session prop refers to is another one or has other contents.
Activates ==
    \/ AppMount
    \/ featureRoundTrip
    \/ /\ phase = "ready"
       /\ activeChatSession(chatHistory', activeChatId')
              # activeChatSession(chatHistory, activeChatId)

\* C15: after every activation (where a chat can be opened) the visible
\* transcript is the turns of the session referred to, the selected model is
\* its recorded variant and the chat is opened with those turns under that
\* variant; with no session the transcript is empty, the model is flash and
\* the chat has an empty history.
C15_Activation ==
    [][(Activates /\ (envKey \/ ~sdkStrict)) =>
          LET sess == activeChatSession(chatHistory', activeChatId')
              turns == IF sess = None THEN <<>> ELSE sess[1].messages
              variant == IF sess = None THEN Flash ELSE sess[1].model
          IN  /\ messages' = turns
              /\ useProModel' = (variant = Pro)
              /\ chat' # None
              /\ chat'[1].model = variant
              /\ chat'[1].history = turns]_vars

\* The stored session (recorded under pro) is active, shown and opened.
C15_Witness ==
    /\ activeChatId = Some(OldSession.id)
    /\ activeChatSession(chatHistory, activeChatId) = Some(OldSession)
    /\ messages = OldSession.messages
    /\ useProModel
    /\ chat = Some([model |-> Pro, history |-> OldSession.messages, keyed |-> envKey])

(***************************************************************************)
(* Claims about uploads and the image functions.                           *)
(***************************************************************************)
\* the content types the upload is to accept
AllowList == {TypePng, TypeJpeg, TypeWebp}

\* C16: the image a panel holds after a file pick has a content type of the
\* allow-list (PNG, JPEG, WEBP), and the pick of a file of any other type is
\* rejected and leaves the panel's image as it was.
C16_UploadAllowList ==
    [][\A p \in UploadPanels : \A file \in Files :
          handleFileChange(p, file) =>
              /\ upload'.image # None => upload'.image[1].mimeType \in AllowList
              /\ file.type \notin AllowList =>
                     (upload'.last = "alert" /\ upload'.image = upload.image)]_vars

\* Files of an allow-listed type are taken with that type, and files that are
\* no image/<word> (SVG, text, untyped) or are empty are refused.
UploadOfOtherFiles ==
    [][\A p \in UploadPanels : \A file \in Files :
          handleFileChange(p, file) =>
              /\ (file.type \in AllowList /\ file.bytes # <<>>) =>
                     (upload'.image # None /\ upload'.image[1].mimeType = file.type)
              /\ (file.type \in {TypeSvg, TypeText, TypeUnknown} \/ file.bytes = <<>>) =>
                     (upload'.last = "alert" /\ upload'.image = upload.image)]_vars

\* the images a provider response holds, in order: the image parts of an
\* edit response, the generated images with bytes of a generate response
ImagesIn(p, response) ==
    IF p = "edit"
    THEN LET parts == SelectSeq(responseParts(response),
                                LAMBDA part : part.inlineData # None)
         IN  [i \in 1..Len(parts) |->
                 [base64 |-> parts[i].inlineData[1].data,
                  mimeType |-> parts[i].inlineData[1].mimeType]]
    ELSE LET list == IF response.generatedImages = None THEN <<>>
                     ELSE response.generatedImages[1]
             made == SelectSeq(list, LAMBDA g :
                         g.image # None /\ g.image[1].imageBytes \notin {None, Some("")})
         IN  [i \in 1..Len(made) |->
                 [base64 |-> made[i].image[1].imageBytes[1], mimeType |-> "image/png"]]

\* what C17 says the panel p holds once `response` has come
ImageAsClaimed(p, response) ==
    LET images == ImagesIn(p, response)
    IN  IF images = <<>>
        THEN panel'[p].error = Some(NoImageProduced)
        ELSE \/ panel'[p].error = Some(NoImageProduced)
             \/ /\ panel'[p].result # None
                /\ \E i \in 1..Len(images) : panel'[p].result[1] = images[i]
                /\ p = "edit" => panel'[p].result[1] = images[1]

\* C17: when the provider response comes, ImageGenerator and ImageEditor
\* get an image taken from the response (ImageEditor the first image part)
\* or the failure NoImageProduced, and for a response without an image the
\* failure is NoImageProduced.
C17_ImageOrNoImageProduced ==
    [][\A p \in {"generate", "edit"} : \A response \in Responses(p) :
          panelResolved(p, response) => ImageAsClaimed(p, response)]_vars

\* editImage alone is as claimed, for every response.
EditImageAsClaimed ==
    [][\A response \in EditResponses :
          panelResolved("edit", response) => ImageAsClaimed("edit", response)]_vars

\* generateImage is as claimed where the list of generated images has a
\* first entry with an image object.
GenerateImageWithFirstEntry ==
    [][\A response \in GenerateResponses :
          (/\ panelResolved("generate", response)
           /\ response.generatedImages \notin {None, Some(<<>>)}
           /\ response.generatedImages[1][1].image # None)
              => ImageAsClaimed("generate", response)]_vars

\* everything but the panel p: the other panels, the chat controller, the
\* session store and the persisted fields
OutsidePanelUnchanged(p) ==
    /\ \A q \in PanelNames \ {p} : panel'[q] = panel[q]
    /\ UNCHANGED <<anim, va, appVars, botVars, gwVars, psVars>>

\* what C18 says of the panel p after a gateway failure
FailureCaught(p) ==
    /\ ~panel'[p].isLoading
    /\ panel'[p].error # None
    /\ OutsidePanelUnchanged(p)

\* C18: after a gateway failure of a call a panel made, the panel's loading
\* flag is false and its error message is set, and nothing outside the
\* panel has changed.
C18_FailureCaughtInPanel ==
    [][\A p \in PanelNames : \A msg \in GatewayFailures :
          (panelRejected(p, msg) \/ detachedRejected(p, msg)) => FailureCaught(p)]_vars

\* The failure of a call of the instance shown is caught as claimed, also
\* when it is thrown while the response is read.
FailureCaughtWhileShown ==
    [][\A p \in PanelNames :
          /\ \A msg \in GatewayFailures : panelRejected(p, msg) => FailureCaught(p)
          /\ \A response \in Responses(p) :
                (panelResolved(p, response) /\ service(p, response).error # None)
                    => FailureCaught(p)]_vars

\* A failure never changes anything outside its panel.
FailureStaysInPanel ==
    [][\A p \in PanelNames : \A msg \in GatewayFailures :
          (panelRejected(p, msg) \/ detachedRejected(p, msg))
              => OutsidePanelUnchanged(p)]_vars

(***************************************************************************)
(* Claims about submissions of the chat controller.                        *)
(***************************************************************************)
\* handleSubmit accepts `text` in this step
Accepts(text) == handleSubmit(text, MaxSubmits) /\ runs' # runs

\* what C19 says of a fragment of submission r: the assistant turn opened
\* directly after the turns of the submission takes the fragment, and no
\* other turn changes
FoldedIntoOwnTurn(r) ==
    LET at == Len(runs[r].newMessages) + 1
    IN  /\ Len(messages) >= at
        /\ SubSeq(messages, 1, at - 1) = runs[r].newMessages
        /\ messages[at].role = "model"
        /\ messages' = [messages EXCEPT ![at].content = runs'[r].fullResponse]

\* C19: a submission is accepted only with a non-blank input, no stream in
\* flight and a chat handle, and then appends the user turn with the
\* submitted text at the end of the transcript; every fragment finds the
\* assistant turn of its submission opened directly after that user turn and
\* is folded into that turn only.
C19_SubmissionAndFolding ==
    [][/\ \A text \in Inputs :
             Accepts(text) =>
                 /\ Trim(text) # <<>>
                 /\ OpenRuns = {}
                 /\ chat # None
                 /\ messages' = Append(messages, UserTurn(text))
       /\ \A r \in DOMAIN runs : StreamFragment(r) => FoldedIntoOwnTurn(r)]_vars

\* The acceptance and the user turn alone are as claimed (one submission).
SubmissionAccepted ==
    [][\A text \in Inputs :
          Accepts(text) =>
              /\ Trim(text) # <<>>
              /\ OpenRuns = {}
              /\ chat # None
              /\ messages' = Append(messages, UserTurn(text))]_vars

\* A fragment that comes after the timer, with the transcript not replaced
\* since the submission, is folded as claimed.
FoldedAfterTimer ==
    [][\A r \in DOMAIN runs :
          (/\ StreamFragment(r)
           /\ Len(messages) = Len(runs[r].newMessages) + 1
           /\ SubSeq(messages, 1, Len(runs[r].newMessages)) = runs[r].newMessages
           /\ messages[Len(messages)].role = "model")
              => FoldedIntoOwnTurn(r)]_vars

StreamFailure == Some("stream")

\* handleSubmit accepts `text` in this step, a second submission allowed
AcceptsAgain(text) == handleSubmit(text, RaceSubmits) /\ runs' # runs

\* The failure of a stream puts the controller in Error.
FailureShown ==
    \A r \in DOMAIN runs :
        StreamFail(r) => (~isLoading' /\ error' = StreamFailure)

\* In Error, a non-blank submission is accepted, clears the message and
\* streams.
ErrorLeftBySubmission ==
    \A text \in Inputs :
        (error = StreamFailure /\ Trim(text) # <<>> /\ handleSubmit(text, RaceSubmits))
            => (AcceptsAgain(text) /\ error' = None /\ isLoading')

\* C20: a failed stream leaves the loading flag false and the failure
\* message set; the message stays until a submission is accepted; and a
\* non-blank submission made then is accepted, clears it and streams.
C20_ErrorUntilNextSubmission ==
    [][/\ FailureShown
       /\ (error = StreamFailure /\ error' # StreamFailure)
              => \E text \in Inputs : AcceptsAgain(text)
       /\ ErrorLeftBySubmission]_vars

\* The failure of a stream the mounted controller started is shown, and a
\* submission leaves Error as claimed.
ErrorOfLiveStream ==
    [][/\ \A r \in DOMAIN runs :
             (StreamFail(r) /\ runs[r].live) => (~isLoading' /\ error' = StreamFailure)
       /\ ErrorLeftBySubmission]_vars

\* The message goes only with a submission or with initializeChat, which
\* the model switch and the [session] effect call.
ErrorClearedOnlyBy ==
    [][(error = StreamFailure /\ error' # StreamFailure) =>
          \/ \E text \in Inputs : AcceptsAgain(text)
          \/ \E isPro \in BOOLEAN : handleModelChange(isPro)
          \/ Activates]_vars

Discarded ==
    /\ upload.image = None
    /\ panel["edit"].result = None
    /\ ~panel["edit"].isLoading
    /\ panel["edit"].error = None

\* C22: handleReset leaves the image editor without original and generated
\* image, not loading and without error, and the editor stays so until a
\* file is picked, whatever a request in flight at the reset resolves with.
C22_ResetDiscards ==
    [][/\ handleReset => Discarded'
       /\ (/\ panel["edit"].mounted
           /\ panel'["edit"].mounted
           /\ Discarded
           /\ ~ \E file \in Files : handleFileChange("edit", file))
              => Discarded']_vars

\* The reset itself discards, and an editor with no request in flight stays
\* discarded until a file is picked.
ResetWithNothingInFlight ==
    [][/\ handleReset => Discarded'
       /\ (/\ panel["edit"].mounted
           /\ panel'["edit"].mounted
           /\ panel["edit"].live = 0
           /\ Discarded
           /\ ~ \E file \in Files : handleFileChange("edit", file))
              => Discarded']_vars

(***************************************************************************)
(* Claims about the course of an animation.                                *)
(***************************************************************************)
\* animateImageWithVeo has returned or thrown
AnimEnded == anim.pc = "idle" /\ anim.outcome # "none"

\* a step of animateImageWithVeo after its first request was sent
AnimStep ==
    \/ \E report \in Reports : animSubmitted(report)
    \/ animTimer
    \/ \E report \in Reports : \E selected, injected \in BOOLEAN :
          animPolled(report, selected, injected)
    \/ \E ok \in BOOLEAN : animFetched(ok)

\* C23: every status re-check comes with one wait before it; a first handle
\* that is done is never re-checked; once the operation has ended (Done or
\* Failed) it takes no further step; and a handle done without a video
\* reference ends the operation with NoVideoProduced, with no download.
C23_AnimationCourse ==
    [][/\ anim'.polls = anim'.waits
       /\ anim'.polls > anim.polls => anim.pc = "waiting"
       /\ \A report \in Reports :
             (animSubmitted(report) /\ report \in {"doneUri", "doneNoUri"})
                 => (anim'.polls = 0 /\ anim'.pc \notin {"waiting", "polling"})
       /\ AnimEnded => ~AnimStep
       /\ (AnimStep /\ anim'.pc = "fetching") => anim.pc # "fetching"
       /\ (\/ animSubmitted("doneNoUri")
           \/ \E selected, injected \in BOOLEAN :
                 animPolled("doneNoUri", selected, injected))
              => (/\ anim'.pc = "idle"
                  /\ anim'.outcome = "NoVideoProduced"
                  /\ va'.error = Some("NoVideoProduced")
                  /\ ~va'.isLoading)]_vars

\* After two re-checks the handle was done without a video reference.
C23_Witness ==
    /\ AnimEnded
    /\ anim.outcome = "NoVideoProduced"
    /\ anim.polls = 2
    /\ anim.waits = 2
    /\ va.videoUrl = None

\* The timers fire and the requests settle: every step of the animation
\* that can be taken is taken.  The provider gives at most MaxPolls not-done
\* reports, so it reports done or an error in the end.
SpecAnimLive == SpecAnim /\ WF_vars(AnimStep)

\* C24: with a provider that reports done or an error in the end, a started
\* animation ends and the loading flag of the video panel becomes false; and
\* the poll loop is left only by such a report: a not-done report always
\* leads to a further wait, however many came before.
C24_AnimationEnds ==
    /\ (va.isLoading ~> ~va.isLoading)
    /\ (anim.pc # "idle" ~> anim.pc = "idle")
    /\ [][(\/ animSubmitted("notDone")
           \/ \E selected, injected \in BOOLEAN :
                 animPolled("notDone", selected, injected))
              => (anim'.pc = "waiting" /\ va'.isLoading)]_vars

\* The provider gave all its not-done reports, then a video, and the panel
\* has stopped loading.
C24_Witness ==
    /\ AnimEnded
    /\ anim.outcome = "done"
    /\ anim.notDone = MaxPolls
    /\ anim.polls = MaxPolls
    /\ ~va.isLoading
    /\ va.videoUrl # None

(***************************************************************************)
(* Claims about streams that overlap other events of the session store.    *)
(***************************************************************************)
\* C25: whatever was selected, created, deleted or switched since the
\* submission, a fragment of submission r changes nothing of the visible
\* transcript but the assistant turn opened for r: either the transcript is
\* left as it is, or it still is the one of the submission and the fragment
\* goes into the turn after the submitted turns.
C25_FragmentOwnTurnOnly ==
    [][\A r \in DOMAIN runs :
          StreamFragment(r) => (messages' = messages \/ FoldedIntoOwnTurn(r))]_vars

\* A fragment never touches the store, the slot or the active reference: the
\* stored transcripts of all sessions are out of its reach.
FragmentLeavesStore ==
    [][\A r \in DOMAIN runs :
          StreamFragment(r) => UNCHANGED <<chatHistory, activeChatId, storage>>]_vars

\* The variant the checkbox shows: the one the user selected last.
SelectedVariant == IF useProModel THEN Pro ELSE Flash

\* The transcript the completion of submission r records.
FinalTranscript(r) == Append(runs[r].newMessages, ModelTurn(runs[r].fullResponse))

\* C26: the completion of a stream of a stored session changes the
\* transcript of that session and nothing else of the store, so a variant
\* switched meanwhile stays; a session created at completion carries the
\* variant selected last.
C26_NoLostVariant ==
    [][\A r \in DOMAIN runs : \A clock \in ClockReads :
          StreamComplete(r, clock) =>
              IF runs[r].session # None
              THEN chatHistory' =
                      [i \in 1..Len(chatHistory) |->
                          IF chatHistory[i].id = runs[r].session[1].id
                          THEN [chatHistory[i] EXCEPT !.messages = FinalTranscript(r)]
                          ELSE chatHistory[i]]
              ELSE /\ chatHistory'[1].model = SelectedVariant
                   /\ chatHistory'[1].messages = FinalTranscript(r)]_vars

\* With no switch of the variant since the submission the completion is as
\* claimed.
CompletionWithoutSwitch ==
    [][\A r \in DOMAIN runs : \A clock \in ClockReads :
          (/\ StreamComplete(r, clock)
           /\ runs[r].usePro = useProModel
           /\ runs[r].session # None =>
                 runs[r].session = activeChatSession(chatHistory, Some(runs[r].session[1].id)))
              => IF runs[r].session # None
                 THEN chatHistory' =
                         [i \in 1..Len(chatHistory) |->
                             IF chatHistory[i].id = runs[r].session[1].id
                             THEN [chatHistory[i] EXCEPT !.messages = FinalTranscript(r)]
                             ELSE chatHistory[i]]
                 ELSE /\ chatHistory'[1].model = SelectedVariant
                      /\ chatHistory'[1].messages = FinalTranscript(r)]_vars

\* The identifiers of the sessions of the store, in its order.
IdsInOrder(h) == [i \in 1..Len(h) |-> h[i].id]

\* C27: handleUpdateSession, called by the completion of a stream of a
\* stored session and by a model switch, never changes the number, the
\* identifiers or the order of the sessions; called with a session that was
\* deleted meanwhile it leaves store, slot and active reference as they are.
C27_NoResurrection ==
    [][/\ \A r \in DOMAIN runs : \A clock \in ClockReads :
             (StreamComplete(r, clock) /\ runs[r].session # None) =>
                 /\ IdsInOrder(chatHistory') = IdsInOrder(chatHistory)
                 /\ runs[r].session[1].id \notin SessionIds(chatHistory) =>
                        UNCHANGED <<chatHistory, activeChatId, storage>>
       /\ \A isPro \in BOOLEAN :
             handleModelChange(isPro) =>
                 IdsInOrder(chatHistory') = IdsInOrder(chatHistory)]_vars

\* The stored session was deleted during the stream of a submission made in
\* it; the timer and both fragments came after the deletion, into the emptied
\* transcript, and the stream has completed: the store is still empty.  (A
\* failed stream would have left an error, a completion in a new chat a
\* session.)
C27_Witness ==
    /\ phase = "ready"
    /\ submits = 1
    /\ runs[1] = IdleRun
    /\ messages = <<ModelTurn(<<"a", "b">>)>>
    /\ error = None
    /\ ~isLoading
    /\ chatHistory = <<>>
    /\ activeChatId = None

\* C28: the active reference is none or the identifier of a session of the
\* store.
C28_ActiveInStore ==
    activeChatId = None \/ activeChatId[1] \in SessionIds(chatHistory)

\* The session created at the completion of a stream is the active one,
\* beside the session that was loaded from the slot.
C28_Witness ==
    /\ Len(chatHistory) = 2
    /\ activeChatId = Some(chatHistory[1].id)
    /\ chatHistory[2] = OldSession
    /\ chatHistory[1].id # OldSession.id

(***************************************************************************)
(* Claims about startup and restart.                                       *)
(***************************************************************************)
\* What the load effect makes of a slot it accepts.
ValidatedForm(slot) ==
    IF loadHistory(slot) = None THEN <<>> ELSE loadHistory(slot)[1]

\* C29: when the page is opened on a slot that holds a list of sessions the
\* load effect accepts, then, although the first save effect writes the
\* empty list, in the settled state the store is the validated form of that
\* list and the slot is its serialization, not the empty list.
C29_StartupKeepsSessions ==
    \A slot \in {s \in LoadSlots : loadHistory(s) # None} :
        [](( /\ phase = "init"
             /\ storage = slot )
           => []( phase = "ready"
                  => /\ chatHistory = ValidatedForm(slot)
                     /\ storage = JSONstringify(ValidatedForm(slot))
                     /\ storage # JSONstringify(<<>>) ))

\* Settled after a start on two persisted sessions: the slot holds the
\* validated list, the legacy session with its system turn kept as user and
\* its empty turn dropped.
C29_Witness ==
    /\ phase = "ready"
    /\ Len(chatHistory) = 2
    /\ chatHistory[2].messages = <<UserTurn(<<"x">>)>>
    /\ storage = JSONstringify(chatHistory)

\* C30: what the controller has written to the slot is read back by a
\* restart as the list that was written: the load effect accepts the slot
\* and the serialization of what it returns is the slot again.
C30_StoreRoundTrip ==
    phase # "init" =>
        /\ loadHistory(storage) # None
        /\ JSONstringify(ValidatedForm(storage)) = storage

\* Every turn of every session in the slot has some content.
SlotTurnsFilled ==
    \A i \in DOMAIN storage.sessions :
        \A j \in DOMAIN storage.sessions[i].messages.items :
            storage.sessions[i].messages.items[j].content \notin {None, Some(<<>>)}

\* A written list in which every turn has content is read back as written.
RoundTripOfFilledTurns ==
    (phase # "init" /\ SlotTurnsFilled) =>
        /\ loadHistory(storage) # None
        /\ JSONstringify(ValidatedForm(storage)) = storage

\* Validation on load is idempotent: a slot holding the serialization of
\* what the load effect returned is loaded as that list.
LoadIdempotent ==
    loadHistory(storage) # None =>
        loadHistory(JSONstringify(ValidatedForm(storage))) = Some(ValidatedForm(storage))

====
